---- MODULE Spec2Model ----
(***************************************************************************)
(* State machine of the TaskTable component (task list, undo/redo history, *)
(* selection, task form, custom-field dialog) together with the            *)
(* localStorage adapter and the startup load.  One action per event        *)
(* handler; the effects React runs after the handler's render are part of  *)
(* the action.                                                             *)
(***************************************************************************)
EXTENDS Integers, Sequences, FiniteSets, TLC

\* ---------------------------------------------------------------- bounds
MaxClock == 4      \* largest value of Date.now() that is explored
MaxPage == 2       \* Next is explored while the current page is below this
MaxEvents == 6     \* number of events (startup, fetch completion, user input) explored

\* --------------------------------------------------------- program values
DefaultPageSize == 10
FirstClock == 3    \* Date.now() is larger than every id of the fetched list

\* property names are texts; the sort comparator takes null like '' (!sortConfig.key)
NoKey == <<>>
TitleKey == <<"t", "i", "t", "l", "e">>
PriorityKey == <<"p", "r", "i", "o", "r", "i", "t", "y">>
StatusKey == <<"s", "t", "a", "t", "u", "s">>
NoId == 0          \* a form record that has no id property

\* characters are one-letter strings, texts are sequences of characters
Titles == {<<"a">>, <<"B">>}
FormPriorities == {"none", "high"}
FormStatuses == {"not_started"}
FieldNameInputs == {<<"a", "b">>, <<"A", "B">>, <<"a">>}
FieldTypes == {"text", "checkbox"}
FilterTitleInputs == {<<>>, <<"a">>}
FilterPriorityInputs == {"all", "high"}
FilterStatusInputs == {"all", "completed"}
SortKeys == {TitleKey, PriorityKey}
PageSizes == {DefaultPageSize, 20}

NoFields == [n \in {} |-> ""]
EmptyField == [name |-> <<>>, type |-> "text"]

Task(id, title, priority, status) ==
    [id |-> id, title |-> title, priority |-> priority, status |-> status,
     cf |-> NoFields]

\* the list served by the remote resource, and what an earlier session may
\* have left under the storage key
RemoteTasks == <<Task(1, <<"a">>, "high", "not_started"),
                 Task(2, <<"B">>, "none", "completed")>>
FetchResponses == {RemoteTasks}

NoItem == [present |-> FALSE, valid |-> FALSE, items |-> <<>>]
CorruptItem == [present |-> TRUE, valid |-> FALSE, items |-> <<>>]
\* JSON.stringify of a task array / JSON.parse of a stored text
JSONstringify(list) == [present |-> TRUE, valid |-> TRUE, items |-> list]
JSONparse(text) == text.items
\* a list stored by an earlier session and some of whose tasks have custom values
StoredWithFields == <<[Task(1, <<"a">>, "high", "not_started") EXCEPT !.cf = (<<"a", "_", "1">> :> "b:true")],
                      Task(2, <<"B">>, "none", "completed")>>
InitialStorage == {NoItem, CorruptItem, JSONstringify(<<>>), JSONstringify(RemoteTasks)}

VARIABLES
    tasks,            \* useTaskStore().tasks
    history,          \* useState([])
    historyIndex,     \* useState(-1)
    selectedTasks,    \* useState([]): sequence of ids
    customFields,     \* useState([]): active field descriptors
    filters,          \* useState({title: '', priority: 'all', status: 'all'})
    sortConfig,       \* useState({key: null, direction: 'asc'})
    pagination,       \* useState({currentPage: 1, pageSize: 10})
    isModalOpen, editingTask, formData,          \* task form
    isCustomFieldsModalOpen, fields, newField, error,   \* custom-field dialog
    storage,          \* localStorage item under STORAGE_KEY
    wrote,            \* outcome of the latest storage write: "none", "ok", "failed"
    load,             \* startup: "init", "fetching", "stored", "fetched", "failed"
    now,              \* the value Date.now() returned last
    toast,            \* notification emitted by the last handler
    lastOp,           \* the last handler that ran
    chain,            \* where the last handlers stand in push, undo, redo
    mark,             \* what the last push replaced and what it left
    session,          \* whether the page was reloaded, and what the reload left behind
    events            \* number of events handled so far

vars == <<tasks, history, historyIndex, selectedTasks, customFields,
          filters, sortConfig, pagination,
          isModalOpen, editingTask, formData, isCustomFieldsModalOpen, fields,
          error, newField, storage, wrote, load, now, toast, lastOp, chain, mark, session, events>>

\* ---------------------------------------------------------------- helpers
Range(s) == {s[i] : i \in 1..Len(s)}

NoTask == Task(NoId, <<>>, "none", "not_started")
DefaultForm == Task(NoId, <<>>, "none", "not_started")

\* setStoredTasks whose setItem call has no effect
setStoredTasksLost(st, list, ok) == st

\* setStoredTasks whose failed write removes the item
setStoredTasksClear(st, list, ok) == IF ok THEN JSONstringify(list) ELSE NoItem

\* getStoredTasks that answers a failed read with the sample list
getStoredTasksSample(st) == IF st.present /\ st.valid THEN JSONparse(st) ELSE RemoteTasks

\* localStorage.js; ok tells whether setItem returned or threw (the catch logs)
getStoredTasks(st) == IF st.present /\ st.valid THEN JSONparse(st) ELSE <<>>
setStoredTasks(st, list, ok) == IF ok THEN JSONstringify(list) ELSE st


\* -------------------------------------------------------------- observers
Outcome(ok) == IF ok THEN "ok" ELSE "failed"

\* the handlers that call setTasks
ChangeOps == {"mount", "fetchSuccess", "create", "update", "delete", "bulkDelete",
              "undo", "redo", "saveFields"}

PushOps == {"create", "update", "delete", "bulkDelete"}

NoMark == [op |-> "none", init |-> FALSE, before |-> <<>>, entry |-> <<>>, dropped |-> 0,
           after |-> <<>>, history |-> <<>>, historyIndex |-> -1]

NoReload == [reloaded |-> FALSE, synced |-> FALSE, before |-> <<>>]

chainNext(c, op) ==
    IF op \in PushOps THEN "push"
    ELSE IF op = "undo" /\ c = "push" THEN "push.undo"
    ELSE IF op = "redo" /\ c = "push.undo" THEN "push.undo.redo"
    ELSE IF op = "redo" /\ c = "push" THEN "push.redo"
    ELSE "other"

\* the component state after construction, whatever the storage holds
Constructed ==
    /\ tasks = <<>>
    /\ history = <<>>
    /\ historyIndex = -1
    /\ selectedTasks = <<>>
    /\ customFields = <<>>
    /\ filters = [title |-> <<>>, priority |-> "all", status |-> "all"]
    /\ sortConfig = [key |-> NoKey, direction |-> "asc"]
    /\ pagination = [currentPage |-> 1, pageSize |-> DefaultPageSize]
    /\ isModalOpen = FALSE
    /\ editingTask = NoTask
    /\ formData = DefaultForm
    /\ isCustomFieldsModalOpen = FALSE
    /\ fields = <<>>
    /\ error = ""
    /\ newField = EmptyField
    /\ wrote = "none"
    /\ load = "init"
    /\ now = FirstClock
    /\ toast = "none"
    /\ lastOp = "construct"
    /\ chain = "other"
    /\ mark = NoMark
    /\ session = NoReload
    /\ events = 0

Init ==
    /\ Constructed
    /\ storage \in InitialStorage

\* -------------------------------------------------------- history manager
\* addToHistory without the slice: the redo entries stay
addToHistoryKeepTail(h, i, newTasks) ==
    [history |-> Append(h, newTasks), historyIndex |-> i + 1]

\* addToHistory without the setHistoryIndex call
addToHistoryNoCursor(h, i, newTasks) ==
    [history |-> Append(SubSeq(h, 1, i + 1), newTasks), historyIndex |-> i]

\* addToHistory: the new history and cursor
addToHistory(h, i, newTasks) ==
    LET newHistory == Append(SubSeq(h, 1, i + 1), newTasks)
    IN  [history |-> newHistory, historyIndex |-> Len(newHistory) - 1]

\* history[k] in the source is entry k + 1 here
Entry(h, k) == h[k + 1]

canUndo(i) == i > 0
canRedo(h, i) == i < Len(h) - 1

\* handleUndo that moves the cursor without its guard
undoIndexUnguarded(i) == i - 1

\* handleUndo that reads history[historyIndex]
undoTasksStale(ts, h, i) == IF canUndo(i) THEN Entry(h, i) ELSE ts

\* handleUndo and handleRedo: the cursor and the task list they leave
undoIndex(i) == IF canUndo(i) THEN i - 1 ELSE i
undoTasks(ts, h, i) == IF canUndo(i) THEN Entry(h, i - 1) ELSE ts
redoIndex(h, i) == IF canRedo(h, i) THEN i + 1 ELSE i
redoTasks(ts, h, i) == IF canRedo(h, i) THEN Entry(h, i + 1) ELSE ts

\* ------------------------------------------------------- list operations
\* handleCreateTask that puts the new task first
createListFront(ts, newTask, id) == <<[newTask EXCEPT !.id = id]>> \o ts

createList(ts, newTask, id) == Append(ts, [newTask EXCEPT !.id = id])
editList(ts, updatedTask) ==
    [k \in 1..Len(ts) |-> IF ts[k].id = updatedTask.id THEN updatedTask ELSE ts[k]]
\* handleDeleteTask's filter with the test inverted
deleteListMatching(ts, taskId) == SelectSeq(ts, LAMBDA t : t.id = taskId)

deleteList(ts, taskId) == SelectSeq(ts, LAMBDA t : t.id # taskId)
bulkDeleteList(ts, sel) == SelectSeq(ts, LAMBDA t : t.id \notin Range(sel))

\* handleSelectTask's updater
toggleSelected(sel, taskId) ==
    IF taskId \in Range(sel) THEN SelectSeq(sel, LAMBDA x : x # taskId)
    ELSE Append(sel, taskId)

\* ----------------------------------------------------------- view pipeline
Letters == {"a", "b", "e", "f", "l", "o", "u", "v", "A", "B", "O"}
Digits == {"1"}
toLowerCase(c) == CASE c = "A" -> "a" [] c = "B" -> "b" [] c = "O" -> "o" [] OTHER -> c
lower(text) == [k \in 1..Len(text) |-> toLowerCase(text[k])]

\* UTF-16 code unit of a character
code(c) == CASE c = "-" -> 45 [] c = "1" -> 49 [] c = "A" -> 65 [] c = "B" -> 66
             [] c = "O" -> 79 [] c = "_" -> 95 [] c = "a" -> 97 [] c = "b" -> 98
             [] c = "e" -> 101 [] c = "f" -> 102 [] c = "l" -> 108 [] c = "o" -> 111
             [] c = "u" -> 117 [] c = "v" -> 118

\* String.prototype.includes
includes(text, part) ==
    \E k \in 0..(Len(text) - Len(part)) : SubSeq(text, k + 1, k + Len(part)) = part

\* a < b on strings: by code units, a proper prefix first
RECURSIVE textLess(_, _)
textLess(a, b) ==
    IF b = <<>> THEN FALSE
    ELSE IF a = <<>> THEN TRUE
    ELSE IF code(Head(a)) # code(Head(b)) THEN code(Head(a)) < code(Head(b))
    ELSE textLess(Tail(a), Tail(b))

\* the words of the two select lists, in the order < puts them
wordRank(w) == CASE w = "completed" -> 1 [] w = "high" -> 2 [] w = "in_progress" -> 3
                 [] w = "medium" -> 4 [] w = "none" -> 5 [] w = "not_started" -> 6
                 [] w = "urgent" -> 7

\* the values a custom property can hold: what the backfill assigns, what the
\* form's inputs assign, and undefined for a task without the property
Undefined == "undefined"
StringValues == {"s:", "s:a", "s:b"}
stringOf(v) == CASE v = "s:" -> <<>> [] v = "s:a" -> <<"a">> [] v = "s:b" -> <<"b">>

\* ToNumber: NaN for undefined and for a text that is not a numeral
NaN == [nan |-> TRUE, n |-> 0]
ToNumber(v) == CASE v = "b:false" -> [nan |-> FALSE, n |-> 0]
                 [] v = "b:true" -> [nan |-> FALSE, n |-> 1]
                 [] v = "n:0" -> [nan |-> FALSE, n |-> 0]
                 [] v = "s:" -> [nan |-> FALSE, n |-> 0]
                 [] OTHER -> NaN

\* x < y of JavaScript: two strings by code units, otherwise as numbers, and
\* false when either number is NaN
jsLess(x, y) ==
    IF x \in StringValues /\ y \in StringValues THEN textLess(stringOf(x), stringOf(y))
    ELSE /\ ~ToNumber(x).nan
         /\ ~ToNumber(y).nan
         /\ ToNumber(x).n < ToNumber(y).n

\* task[key] for a custom property
customValue(task, key) == IF key \in DOMAIN task.cf THEN task.cf[key] ELSE Undefined

\* a[key] < b[key]
valueLess(key, a, b) ==
    CASE key = TitleKey -> textLess(a.title, b.title)
      [] key = PriorityKey -> wordRank(a.priority) < wordRank(b.priority)
      [] key = StatusKey -> wordRank(a.status) < wordRank(b.status)
      [] OTHER -> jsLess(customValue(a, key), customValue(b, key))

\* the comparator given to sort
compare(cfg, a, b) ==
    IF cfg.key = NoKey THEN 0
    ELSE IF valueLess(cfg.key, a, b) THEN (IF cfg.direction = "asc" THEN -1 ELSE 1)
    ELSE IF valueLess(cfg.key, b, a) THEN (IF cfg.direction = "asc" THEN 1 ELSE -1)
    ELSE 0

\* the filter callback without the two toLowerCase calls
matchesFilterExact(f, task) ==
    /\ includes(task.title, f.title)
    /\ (f.priority = "all" \/ task.priority = f.priority)
    /\ (f.status = "all" \/ task.status = f.status)

matchesFilter(f, task) ==
    /\ includes(lower(task.title), lower(f.title))
    /\ (f.priority = "all" \/ task.priority = f.priority)
    /\ (f.status = "all" \/ task.status = f.status)

filteredTasks(ts, f) == SelectSeq(ts, LAMBDA t : matchesFilter(f, t))

\* Array.prototype.sort is stable: insert each element after its equals
RECURSIVE insertSorted(_, _, _)
insertSorted(cfg, sorted, x) ==
    IF sorted = <<>> THEN <<x>>
    ELSE IF compare(cfg, x, Head(sorted)) < 0 THEN <<x>> \o sorted
    ELSE <<Head(sorted)>> \o insertSorted(cfg, Tail(sorted), x)

RECURSIVE sortedTasks(_, _)
sortedTasks(ts, cfg) ==
    IF ts = <<>> THEN <<>>
    ELSE insertSorted(cfg, sortedTasks(SubSeq(ts, 1, Len(ts) - 1), cfg), ts[Len(ts)])

\* Array.prototype.slice(from, to) with 0 <= from
slice(s, from, to) ==
    LET end == IF to > Len(s) THEN Len(s) ELSE to
    IN  IF from >= end THEN <<>> ELSE SubSeq(s, from + 1, end)

pageOf(ts, pg) == slice(ts, (pg.currentPage - 1) * pg.pageSize, pg.currentPage * pg.pageSize)

\* Math.floor in place of Math.ceil
totalPagesFloor(n, size) == n \div size

\* Math.ceil(n / size)
totalPagesOf(n, size) == (n + size - 1) \div size

\* the rows the table shows
paginatedTasks == pageOf(sortedTasks(filteredTasks(tasks, filters), sortConfig), pagination)
totalPages == totalPagesOf(Len(filteredTasks(tasks, filters)), pagination.pageSize)

\* a page control can be clicked: startup has run and no dialog covers the page
PageReady == load # "init" /\ ~isModalOpen /\ ~isCustomFieldsModalOpen

\* bookkeeping of every event; written after the handler's own assignments
Ghost(op, t) ==
    /\ events < MaxEvents
    /\ events' = events + 1
    /\ lastOp' = op
    /\ toast' = t
    /\ chain' = chainNext(chain, op)
    /\ mark' = IF op \in PushOps
               THEN [op |-> op, init |-> historyIndex >= 0, before |-> tasks,
                     entry |-> IF historyIndex >= 0 THEN Entry(history, historyIndex) ELSE <<>>,
                     dropped |-> Len(history) - (historyIndex + 1),
                     after |-> tasks', history |-> history', historyIndex |-> historyIndex']
               ELSE IF chain' = "other" THEN NoMark ELSE mark
    /\ UNCHANGED session

\* a handler that calls setTasks(newTasks) and addToHistory(newTasks); the
\* persistence effect runs after its render
Commit(newTasks, ok) ==
    LET r == addToHistory(history, historyIndex, newTasks)
    IN  /\ tasks' = newTasks
        /\ history' = r.history
        /\ historyIndex' = r.historyIndex
        /\ storage' = setStoredTasks(storage, newTasks, ok)
        /\ wrote' = Outcome(ok)

\* ------------------------------------------------------------ startup
\* first commit: the initial load effect, then the persistence effect
Mount ==
    /\ load = "init"
    /\ \E ok1, ok2 \in BOOLEAN :
         LET storedTasks == getStoredTasks(storage)
             afterFirst == setStoredTasks(storage, tasks, ok1)
         IN  IF Len(storedTasks) > 0
             THEN /\ tasks' = storedTasks
                  /\ history' = <<storedTasks>>
                  /\ historyIndex' = 0
                  /\ load' = "stored"
                  /\ storage' = setStoredTasks(afterFirst, storedTasks, ok2)
                  /\ wrote' = Outcome(ok2)
             ELSE /\ load' = "fetching"
                  /\ storage' = afterFirst
                  /\ wrote' = Outcome(ok1)
                  /\ UNCHANGED <<tasks, history, historyIndex>>
    /\ Ghost("mount", "none")
    /\ UNCHANGED <<filters, sortConfig, pagination, selectedTasks, customFields, isModalOpen, editingTask, formData,
                   isCustomFieldsModalOpen, fields, error, newField, now>>

FetchSuccess ==
    /\ load = "fetching"
    /\ \E data \in FetchResponses, ok1, ok2 \in BOOLEAN :
         /\ tasks' = data
         /\ history' = <<data>>
         /\ historyIndex' = 0
         /\ storage' = setStoredTasks(setStoredTasks(storage, data, ok1), data, ok2)
         /\ wrote' = Outcome(ok2)
    /\ load' = "fetched"
    /\ Ghost("fetchSuccess", "none")
    /\ UNCHANGED <<filters, sortConfig, pagination, selectedTasks, customFields, isModalOpen, editingTask, formData,
                   isCustomFieldsModalOpen, fields, error, newField, now>>

\* a catch block that starts the fetch again
FetchFailRetry ==
    /\ load = "fetching"
    /\ load' = "fetching"
    /\ Ghost("fetchFail", "none")
    /\ UNCHANGED <<filters, sortConfig, pagination, tasks, history, historyIndex, storage, wrote,
                   selectedTasks, customFields, isModalOpen, editingTask, formData,
                   isCustomFieldsModalOpen, fields, error, newField, now>>

\* the catch block of fetchTasks: console.error only
FetchFail ==
    /\ load = "fetching"
    /\ load' = "failed"
    /\ Ghost("fetchFail", "none")
    /\ UNCHANGED <<filters, sortConfig, pagination, tasks, history, historyIndex, storage, wrote, selectedTasks, customFields,
                   isModalOpen, editingTask, formData, isCustomFieldsModalOpen,
                   fields, error, newField, now>>

\* Date.now() never goes back; two readings may fall in the same millisecond
Clock(t) == t \in now..(now + 1) /\ t <= MaxClock

\* ------------------------------------------------------------ history
handleUndo ==
    /\ load # "init"
    /\ historyIndex' = undoIndex(historyIndex)
    /\ tasks' = undoTasks(tasks, history, historyIndex)
    /\ IF canUndo(historyIndex)
       THEN \E ok \in BOOLEAN : /\ storage' = setStoredTasks(storage, tasks', ok)
                                 /\ wrote' = Outcome(ok)
       ELSE UNCHANGED <<storage, wrote>>
    /\ Ghost("undo", "none")
    /\ UNCHANGED <<filters, sortConfig, pagination, history, selectedTasks, customFields, isModalOpen, editingTask,
                   formData, isCustomFieldsModalOpen, fields, error, newField, load, now>>

handleRedo ==
    /\ load # "init"
    /\ historyIndex' = redoIndex(history, historyIndex)
    /\ tasks' = redoTasks(tasks, history, historyIndex)
    /\ IF canRedo(history, historyIndex)
       THEN \E ok \in BOOLEAN : /\ storage' = setStoredTasks(storage, tasks', ok)
                                 /\ wrote' = Outcome(ok)
       ELSE UNCHANGED <<storage, wrote>>
    /\ Ghost("redo", "none")
    /\ UNCHANGED <<filters, sortConfig, pagination, history, selectedTasks, customFields, isModalOpen, editingTask,
                   formData, isCustomFieldsModalOpen, fields, error, newField, load, now>>

\* ------------------------------------------------------------ task form
OpenCreate ==
    /\ PageReady
    /\ editingTask' = NoTask
    /\ isModalOpen' = TRUE
    /\ Ghost("openCreate", "none")
    /\ UNCHANGED <<filters, sortConfig, pagination, tasks, history, historyIndex, selectedTasks, customFields, formData,
                   isCustomFieldsModalOpen, fields, error, newField, storage, wrote, load, now>>

\* the Edit button of a row; TaskModal's effect copies the task into the form
OpenEdit ==
    /\ PageReady
    /\ \E k \in 1..Len(paginatedTasks) :
         /\ editingTask' = paginatedTasks[k]
         /\ formData' = paginatedTasks[k]
    /\ isModalOpen' = TRUE
    /\ Ghost("openEdit", "none")
    /\ UNCHANGED <<filters, sortConfig, pagination, tasks, history, historyIndex, selectedTasks, customFields,
                   isCustomFieldsModalOpen, fields, error, newField, storage, wrote, load, now>>

ChangeForm ==
    /\ isModalOpen
    /\ \/ \E t \in Titles : formData' = [formData EXCEPT !.title = t]
       \/ \E p \in FormPriorities : formData' = [formData EXCEPT !.priority = p]
       \/ \E st \in FormStatuses : formData' = [formData EXCEPT !.status = st]
    /\ formData' # formData
    /\ Ghost("changeForm", "none")
    /\ UNCHANGED <<filters, sortConfig, pagination, tasks, history, historyIndex, selectedTasks, customFields, isModalOpen,
                   editingTask, isCustomFieldsModalOpen, fields, error, newField, storage, wrote, load, now>>

CloseForm ==
    /\ isModalOpen
    /\ isModalOpen' = FALSE
    /\ editingTask' = NoTask
    /\ Ghost("closeForm", "none")
    /\ UNCHANGED <<filters, sortConfig, pagination, tasks, history, historyIndex, selectedTasks, customFields, formData,
                   isCustomFieldsModalOpen, fields, error, newField, storage, wrote, load, now>>

\* handleSubmit with no task being edited: onSave -> handleCreateTask, onClose
handleCreateTask ==
    /\ isModalOpen /\ formData.title # <<>> /\ editingTask = NoTask
    /\ \E ok \in BOOLEAN, t \in now..MaxClock :
         /\ Clock(t)
         /\ now' = t
         /\ Commit(createList(tasks, formData, t), ok)
    /\ isModalOpen' = FALSE
    /\ editingTask' = NoTask
    /\ Ghost("create", "Task created successfully!")
    /\ UNCHANGED <<filters, sortConfig, pagination, selectedTasks, customFields, formData, isCustomFieldsModalOpen, fields,
                   error, newField, load>>

\* handleSubmit with a task being edited: onSave -> handleEditTask, onClose
handleEditTask ==
    /\ isModalOpen /\ formData.title # <<>> /\ editingTask # NoTask
    /\ \E ok \in BOOLEAN : Commit(editList(tasks, formData), ok)
    /\ isModalOpen' = FALSE
    /\ editingTask' = NoTask
    /\ Ghost("update", "Task updated successfully!")
    /\ UNCHANGED <<filters, sortConfig, pagination, selectedTasks, customFields, formData, isCustomFieldsModalOpen, fields,
                   error, newField, load, now>>

\* ------------------------------------------------------ delete, selection
\* a handler that ignores the answer of window.confirm
proceedsAlways(answer) == TRUE

\* if (window.confirm(...)): the handler goes on iff the user answered OK
proceeds(answer) == answer

handleDeleteTask ==
    /\ PageReady
    /\ \E k \in 1..Len(paginatedTasks), answer \in BOOLEAN :
         /\ IF proceeds(answer)
            THEN \E ok \in BOOLEAN : Commit(deleteList(tasks, paginatedTasks[k].id), ok)
            ELSE UNCHANGED <<tasks, history, historyIndex, storage, wrote>>
         /\ Ghost(IF answer THEN "delete" ELSE "deleteDeclined",
                  IF proceeds(answer) THEN "Task deleted successfully!" ELSE "none")
    /\ UNCHANGED <<filters, sortConfig, pagination, selectedTasks, customFields, isModalOpen, editingTask, formData,
                   isCustomFieldsModalOpen, fields, error, newField, load, now>>

handleSelectTask ==
    /\ PageReady
    /\ \E k \in 1..Len(paginatedTasks) :
         selectedTasks' = toggleSelected(selectedTasks, paginatedTasks[k].id)
    /\ Ghost("select", "none")
    /\ UNCHANGED <<filters, sortConfig, pagination, tasks, history, historyIndex, customFields, isModalOpen, editingTask,
                   formData, isCustomFieldsModalOpen, fields, error, newField, storage, wrote, load, now>>

\* the header checkbox is drawn checked iff this holds; a click inverts it
allChecked(sel, page) == Len(sel) = Len(page) /\ Len(page) > 0

selectAll(sel, page) ==
    IF ~allChecked(sel, page) THEN [k \in 1..Len(page) |-> page[k].id] ELSE <<>>

handleSelectAll ==
    /\ PageReady
    /\ selectedTasks' = selectAll(selectedTasks, paginatedTasks)
    /\ Ghost("selectAll", "none")
    /\ UNCHANGED <<filters, sortConfig, pagination, tasks, history, historyIndex, customFields, isModalOpen, editingTask,
                   formData, isCustomFieldsModalOpen, fields, error, newField, storage, wrote, load, now>>

\* the button is rendered only while something is selected
handleBulkDelete ==
    /\ PageReady
    /\ Len(selectedTasks) > 0
    /\ \E answer \in BOOLEAN :
         /\ IF proceeds(answer)
            THEN /\ \E ok \in BOOLEAN : Commit(bulkDeleteList(tasks, selectedTasks), ok)
                 /\ selectedTasks' = <<>>
            ELSE UNCHANGED <<tasks, history, historyIndex, storage, wrote, selectedTasks>>
         /\ Ghost(IF answer THEN "bulkDelete" ELSE "bulkDeclined",
                  IF proceeds(answer) THEN "tasks deleted successfully!" ELSE "none")
    /\ UNCHANGED <<filters, sortConfig, pagination, customFields, isModalOpen, editingTask, formData,
                   isCustomFieldsModalOpen, fields, error, newField, load, now>>

\* ------------------------------------------------------- view controls
\* the effect with dependencies [filters, sortConfig, pagination.currentPage]
resetSelection(sel, changed) == IF changed THEN <<>> ELSE sel

ViewFrame == UNCHANGED <<tasks, history, historyIndex, customFields, isModalOpen,
                         editingTask, formData, isCustomFieldsModalOpen, fields, error, newField,
                         storage, wrote, load, now>>

ChangeFilter ==
    /\ PageReady
    /\ \/ \E t \in FilterTitleInputs : filters' = [filters EXCEPT !.title = t]
       \/ \E p \in FilterPriorityInputs : filters' = [filters EXCEPT !.priority = p]
       \/ \E st \in FilterStatusInputs : filters' = [filters EXCEPT !.status = st]
    /\ filters' # filters
    /\ selectedTasks' = resetSelection(selectedTasks, TRUE)
    /\ Ghost("changeFilter", "none")
    /\ UNCHANGED <<sortConfig, pagination>>
    /\ ViewFrame

\* handleSort that also sorts the task list itself (tasks.sort in place)
SortInPlace(keys) ==
    /\ PageReady
    /\ \E key \in keys :
         sortConfig' = [key |-> key,
                        direction |-> IF sortConfig.key = key /\ sortConfig.direction = "asc"
                                      THEN "desc" ELSE "asc"]
    /\ tasks' = sortedTasks(tasks, sortConfig')
    /\ selectedTasks' = resetSelection(selectedTasks, TRUE)
    /\ Ghost("sort", "none")
    /\ UNCHANGED <<filters, pagination, history, historyIndex, customFields, isModalOpen,
                   editingTask, formData, isCustomFieldsModalOpen, fields, error, newField,
                   storage, wrote, load, now>>

\* a click on a sortable column header
Sort(keys) ==
    /\ PageReady
    /\ \E key \in keys :
         sortConfig' = [key |-> key,
                        direction |-> IF sortConfig.key = key /\ sortConfig.direction = "asc"
                                      THEN "desc" ELSE "asc"]
    /\ selectedTasks' = resetSelection(selectedTasks, TRUE)
    /\ Ghost("sort", "none")
    /\ UNCHANGED <<filters, pagination>>
    /\ ViewFrame

handleSort == Sort(SortKeys)

\* the same handler over every header: the three fixed columns and one column
\* for each active custom field
ColumnKeys == {TitleKey, PriorityKey, StatusKey} \cup {customFields[k].name : k \in 1..Len(customFields)}
handleSortAny == Sort(ColumnKeys)

ChangePageSize ==
    /\ PageReady
    /\ \E size \in PageSizes \ {pagination.pageSize} :
         pagination' = [currentPage |-> 1, pageSize |-> size]
    /\ selectedTasks' = resetSelection(selectedTasks, pagination'.currentPage # pagination.currentPage)
    /\ Ghost("pageSize", "none")
    /\ UNCHANGED <<filters, sortConfig>>
    /\ ViewFrame

PreviousPage ==
    /\ PageReady
    /\ pagination.currentPage # 1
    /\ pagination' = [pagination EXCEPT !.currentPage = @ - 1]
    /\ selectedTasks' = resetSelection(selectedTasks, TRUE)
    /\ Ghost("previous", "none")
    /\ UNCHANGED <<filters, sortConfig>>
    /\ ViewFrame

NextPage ==
    /\ PageReady
    /\ pagination.currentPage # totalPages
    /\ pagination.currentPage < MaxPage
    /\ pagination' = [pagination EXCEPT !.currentPage = @ + 1]
    /\ selectedTasks' = resetSelection(selectedTasks, TRUE)
    /\ Ghost("next", "none")
    /\ UNCHANGED <<filters, sortConfig>>
    /\ ViewFrame

\* ------------------------------------------------------- custom fields
\* /^[a-zA-Z][a-zA-Z0-9_]*$/
matchesPattern(name) ==
    /\ Len(name) >= 1
    /\ name[1] \in Letters
    /\ \A k \in 2..Len(name) : name[k] \in Letters \cup Digits \cup {"_"}

\* validateFieldName that compares the names as they are written
validateFieldNameExact(fs, name) ==
    IF name = <<>> THEN "Field name is required"
    ELSE IF Len(name) < 2 THEN "Field name must be at least 2 characters"
    ELSE IF \E k \in 1..Len(fs) : fs[k].name = name THEN "Field name must be unique"
    ELSE IF ~matchesPattern(name) THEN "Field name must start with a letter and contain only letters, numbers, and underscores"
    ELSE ""

validateFieldName(fs, name) ==
    IF name = <<>> THEN "Field name is required"
    ELSE IF Len(name) < 2 THEN "Field name must be at least 2 characters"
    ELSE IF \E k \in 1..Len(fs) : lower(fs[k].name) = lower(name) THEN "Field name must be unique"
    ELSE IF ~matchesPattern(name) THEN "Field name must start with a letter and contain only letters, numbers, and underscores"
    ELSE ""

defaultValue(type) == IF type = "checkbox" THEN "b:false"
                      ELSE IF type = "number" THEN "n:0" ELSE "s:"

\* property names every object inherits from Object.prototype: valueOf stands
\* for constructor, toString, hasOwnProperty and the others that are identifiers
ValueOf == <<"v", "a", "l", "u", "e", "O", "f">>
ObjectPrototypeKeys == {ValueOf}

\* name in task, for a name that is not id, title, priority or status: an own
\* custom key or an inherited property
hasProperty(task, n) == n \in DOMAIN task.cf \/ n \in ObjectPrototypeKeys

\* the map of handleCustomFieldsSave, for one task
backfill(task, fs) ==
    LET names == {fs[k].name : k \in 1..Len(fs)}
        missing == {n \in names : ~hasProperty(task, n)}
        first(n) == fs[CHOOSE k \in 1..Len(fs) :
                         fs[k].name = n /\ \A j \in 1..(k - 1) : fs[j].name # n]
    IN  [task EXCEPT !.cf = [n \in (DOMAIN task.cf) \cup missing |->
                               IF n \in DOMAIN task.cf THEN task.cf[n]
                               ELSE defaultValue(first(n).type)]]

backfillList(ts, fs) == [k \in 1..Len(ts) |-> backfill(ts[k], fs)]

OpenFields ==
    /\ PageReady
    /\ isCustomFieldsModalOpen' = TRUE
    /\ Ghost("openFields", "none")
    /\ UNCHANGED <<filters, sortConfig, pagination, tasks, history, historyIndex, selectedTasks, customFields, isModalOpen,
                   editingTask, formData, fields, error, newField, storage, wrote, load, now>>

\* the user fills the two inputs of the dialog and presses Add Field
AddField(names, types) ==
    /\ isCustomFieldsModalOpen
    /\ \E name \in names, type \in types :
         LET validationError == validateFieldName(fields, name)
         IN  IF validationError # ""
             THEN /\ error' = validationError
                  /\ newField' = [name |-> name, type |-> type]
                  /\ UNCHANGED <<fields, now>>
             ELSE /\ \E t \in now..MaxClock :
                       /\ Clock(t)
                       /\ now' = t
                       /\ fields' = Append(fields, [id |-> t, name |-> name, type |-> type])
                  /\ newField' = EmptyField
                  /\ error' = ""
    /\ Ghost("addField", "none")
    /\ UNCHANGED <<filters, sortConfig, pagination, tasks, history, historyIndex, selectedTasks, customFields, isModalOpen,
                   editingTask, formData, isCustomFieldsModalOpen, storage, wrote, load>>

handleAddField == AddField(FieldNameInputs, FieldTypes)

\* the same handler over every kind of name and every type of the select
AnyFieldNames == {<<>>, <<"a">>, <<"a", "_", "1">>, <<"A", "_", "1">>, <<"1", "f">>, <<"a", "-">>,
                  ValueOf}
AnyFieldTypes == {"text", "number", "checkbox"}
handleAddFieldAny == AddField(AnyFieldNames, AnyFieldTypes)

handleRemoveField ==
    /\ isCustomFieldsModalOpen
    /\ \E k \in 1..Len(fields) :
         fields' = SelectSeq(fields, LAMBDA f : f.id # fields[k].id)
    /\ Ghost("removeField", "none")
    /\ UNCHANGED <<filters, sortConfig, pagination, tasks, history, historyIndex, selectedTasks, customFields, isModalOpen,
                   editingTask, formData, isCustomFieldsModalOpen, error, newField, storage, wrote, load, now>>

CloseFields ==
    /\ isCustomFieldsModalOpen
    /\ isCustomFieldsModalOpen' = FALSE
    /\ Ghost("closeFields", "none")
    /\ UNCHANGED <<filters, sortConfig, pagination, tasks, history, historyIndex, selectedTasks, customFields, isModalOpen,
                   editingTask, formData, fields, error, newField, storage, wrote, load, now>>

\* a handleCustomFieldsSave that also calls addToHistory(updatedTasks)
handleCustomFieldsSavePush ==
    /\ isCustomFieldsModalOpen
    /\ customFields' = fields
    /\ \E ok \in BOOLEAN : Commit(backfillList(tasks, fields), ok)
    /\ isCustomFieldsModalOpen' = FALSE
    /\ Ghost("saveFields", "none")
    /\ UNCHANGED <<filters, sortConfig, pagination, selectedTasks, isModalOpen, editingTask,
                   formData, fields, error, newField, load, now>>

\* handleSave of the dialog: onSave(fields) = handleCustomFieldsSave, onClose
handleCustomFieldsSave ==
    /\ isCustomFieldsModalOpen
    /\ customFields' = fields
    /\ tasks' = backfillList(tasks, fields)
    /\ \E ok \in BOOLEAN : /\ storage' = setStoredTasks(storage, tasks', ok)
                            /\ wrote' = Outcome(ok)
    /\ isCustomFieldsModalOpen' = FALSE
    /\ Ghost("saveFields", "none")
    /\ UNCHANGED <<filters, sortConfig, pagination, history, historyIndex, selectedTasks, isModalOpen, editingTask,
                   formData, fields, error, newField, load, now>>

\* ---------------------------------------------------------- specification
Next ==
    \/ Mount
    \/ FetchSuccess
    \/ FetchFail
    \/ handleUndo
    \/ handleRedo
    \/ OpenCreate
    \/ OpenEdit
    \/ ChangeForm
    \/ CloseForm
    \/ handleCreateTask
    \/ handleEditTask
    \/ handleDeleteTask
    \/ handleSelectTask
    \/ handleSelectAll
    \/ handleBulkDelete
    \/ ChangeFilter
    \/ handleSort
    \/ ChangePageSize
    \/ PreviousPage
    \/ NextPage
    \/ OpenFields
    \/ handleAddField
    \/ handleRemoveField
    \/ CloseFields
    \/ handleCustomFieldsSave

Spec == Init /\ [][Next]_vars

\* ----------------------------------------------------------- custom fields
\* startup from a stored list that has custom values, and the custom-field
\* dialog over every kind of field name and every type
InitialStorageFields == {JSONstringify(StoredWithFields)}

InitFields ==
    /\ Constructed
    /\ storage \in InitialStorageFields

NextFields ==
    \/ Mount
    \/ OpenFields
    \/ handleAddFieldAny
    \/ handleRemoveField
    \/ CloseFields
    \/ handleCustomFieldsSave

SpecFields == InitFields /\ [][NextFields]_vars

\* -------------------------------------------------------------------- view
\* the view controls over loaded lists: five tasks two of which have priority
\* high, twenty-five tasks, and two tasks under an active custom field "ab",
\* once both with a value and once one without (a task created after the save)
AbKey == <<"a", "b">>
AbField == [id |-> FirstClock, name |-> AbKey, type |-> "text"]

FiveTasks == <<Task(1, <<"a">>, "high", "not_started"),
               Task(2, <<"B">>, "none", "completed"),
               Task(3, <<"A", "b">>, "high", "in_progress"),
               Task(4, <<"b">>, "medium", "completed"),
               Task(5, <<"b", "a">>, "urgent", "not_started")>>

ManyTasks == [k \in 1..25 |->
                Task(k, IF k % 2 = 0 THEN <<"a">> ELSE <<"B">>,
                     IF k % 3 = 0 THEN "high" ELSE "none",
                     IF k % 5 = 0 THEN "completed" ELSE "not_started")]

FilledTasks == <<[Task(1, <<"a">>, "high", "not_started") EXCEPT !.cf = (AbKey :> "s:a")],
                 [Task(2, <<"B">>, "none", "completed") EXCEPT !.cf = (AbKey :> "s:")]>>

PartlyFilledTasks == <<[Task(1, <<"a">>, "high", "not_started") EXCEPT !.cf = (AbKey :> "s:a")],
                       Task(2, <<"B">>, "none", "completed")>>

ViewStates == {[tasks |-> FiveTasks, customFields |-> <<>>],
               [tasks |-> ManyTasks, customFields |-> <<>>],
               [tasks |-> FilledTasks, customFields |-> <<AbField>>],
               [tasks |-> PartlyFilledTasks, customFields |-> <<AbField>>]}

InitView ==
    /\ \E v \in ViewStates :
         /\ tasks = v.tasks
         /\ customFields = v.customFields
    /\ history = <<tasks>>
    /\ historyIndex = 0
    /\ selectedTasks = <<>>
    /\ filters = [title |-> <<>>, priority |-> "all", status |-> "all"]
    /\ sortConfig = [key |-> NoKey, direction |-> "asc"]
    /\ pagination = [currentPage |-> 1, pageSize |-> DefaultPageSize]
    /\ isModalOpen = FALSE
    /\ editingTask = NoTask
    /\ formData = DefaultForm
    /\ isCustomFieldsModalOpen = FALSE
    /\ fields = customFields
    /\ error = ""
    /\ newField = EmptyField
    /\ storage = JSONstringify(tasks)
    /\ wrote = "ok"
    /\ load = "stored"
    /\ now = FirstClock
    /\ toast = "none"
    /\ lastOp = "mount"
    /\ chain = "other"
    /\ mark = NoMark
    /\ session = NoReload
    /\ events = 0

NextView ==
    \/ ChangeFilter
    \/ handleSortAny
    \/ ChangePageSize
    \/ PreviousPage
    \/ NextPage

SpecView == InitView /\ [][NextView]_vars

\* ------------------------------------------------------------------ reload
\* the browser reloads the page: every useState and the store start again from
\* their initial values, the localStorage item stays, the clock goes on
Reload ==
    /\ load # "init"
    /\ events < MaxEvents
    /\ tasks' = <<>>
    /\ history' = <<>>
    /\ historyIndex' = -1
    /\ selectedTasks' = <<>>
    /\ customFields' = <<>>
    /\ filters' = [title |-> <<>>, priority |-> "all", status |-> "all"]
    /\ sortConfig' = [key |-> NoKey, direction |-> "asc"]
    /\ pagination' = [currentPage |-> 1, pageSize |-> DefaultPageSize]
    /\ isModalOpen' = FALSE
    /\ editingTask' = NoTask
    /\ formData' = DefaultForm
    /\ isCustomFieldsModalOpen' = FALSE
    /\ fields' = <<>>
    /\ error' = ""
    /\ newField' = EmptyField
    /\ load' = "init"
    /\ wrote' = "none"
    /\ toast' = "none"
    /\ lastOp' = "reload"
    /\ chain' = "other"
    /\ mark' = NoMark
    /\ session' = [reloaded |-> TRUE, synced |-> wrote = "ok", before |-> tasks]
    /\ events' = events + 1
    /\ UNCHANGED <<storage, now>>

NextReload ==
    \/ Next
    \/ Reload

SpecReload == Init /\ [][NextReload]_vars

\* ------------------------------------------------------------------ claims
\* C1: with an initialized history, right after a mutating operation pushed
\* snapshot S while the cursor entry was P, undo makes the task list P and a
\* directly following redo makes it S again; the history entries stay as the
\* push left them.
C1_UndoRedoRoundTrip ==
    /\ (chain = "push.undo" /\ mark.init) =>
           /\ tasks = mark.entry
           /\ history = mark.history
    /\ (chain = "push.undo.redo" /\ mark.init) =>
           /\ tasks = mark.after
           /\ history = mark.history

C1_Witness ==
    /\ chain = "push.undo.redo"
    /\ mark.init
    /\ mark.entry # mark.after
    /\ tasks = mark.after

\* C2: a push made while redo states exist leaves the pushed snapshot as the
\* last entry after the entries up to the old cursor, and a redo that follows
\* changes neither the task list, the history nor the cursor.
C2_PushDiscardsRedoTail ==
    [][/\ (events' = events + 1 /\ lastOp' \in PushOps) =>
            /\ history' = Append(SubSeq(history, 1, historyIndex + 1), tasks')
            /\ historyIndex' = Len(history') - 1
       /\ (events' = events + 1 /\ lastOp' = "redo" /\ chain = "push") =>
            UNCHANGED <<tasks, history, historyIndex>>]_vars

C2_Witness ==
    /\ chain = "push.redo"
    /\ mark.dropped > 0
    /\ Len(history) = mark.historyIndex + 1

\* C3: the history is empty with cursor -1, or the cursor is an index of it.
C3_CursorValid ==
    \/ history = <<>> /\ historyIndex = -1
    \/ 0 <= historyIndex /\ historyIndex <= Len(history) - 1

C3_Witness ==
    /\ lastOp = "undo"
    /\ Len(history) >= 3
    /\ historyIndex = 0

\* C4: when startup loading has finished, by a stored list, a fetched list
\* or a failed fetch, the history is the single entry equal to the task list
\* and the cursor is 0.
C4_StartupSeedsHistory ==
    (lastOp \in {"mount", "fetchSuccess", "fetchFail"} /\ load \in {"stored", "fetched", "failed"}) =>
        /\ history = <<tasks>>
        /\ historyIndex = 0

\* C5: an undo issued right after a create returns the task list to what it
\* was just before the create, with the cursor one less than after the create.
C5_UndoAfterCreate ==
    (chain = "push.undo" /\ mark.op = "create") =>
        /\ tasks = mark.before
        /\ historyIndex = mark.historyIndex - 1

\* C6: create appends the draft with a generated id as the one new, last task,
\* leaves the cursor on the last history entry, which equals the new list, and
\* lengthens the history by one when the cursor was on the last entry.
C6_CreateEffect ==
    [][(events' = events + 1 /\ lastOp' = "create") =>
          /\ Len(tasks') = Len(tasks) + 1
          /\ SubSeq(tasks', 1, Len(tasks)) = tasks
          /\ tasks'[Len(tasks')] = [formData EXCEPT !.id = now']
          /\ historyIndex' = Len(history') - 1
          /\ Entry(history', historyIndex') = tasks'
          /\ (historyIndex = Len(history) - 1 => Len(history') = Len(history) + 1)]_vars

C6_Witness ==
    /\ lastOp = "create"
    /\ Len(tasks) >= 3
    /\ Len(history) >= 2
    /\ tasks[Len(tasks)].id >= FirstClock

\* C7: right after create, update, confirmed delete or confirmed bulk delete
\* the history entry at the cursor is the current task list and the cursor is
\* the last index of the history.
C7_MutationRecorded ==
    lastOp \in PushOps =>
        /\ historyIndex = Len(history) - 1
        /\ historyIndex >= 0
        /\ Entry(history, historyIndex) = tasks

C7_Witness ==
    /\ lastOp = "delete"
    /\ mark.dropped > 0
    /\ mark.before # tasks

\* C8: an update whose task id matches no task of the list changes neither
\* the task list, the history nor the cursor and emits no notification.
C8_UpdateNoMatchIsNoOp ==
    [][(/\ events' = events + 1
        /\ lastOp' = "update"
        /\ \A k \in 1..Len(tasks) : tasks[k].id # formData.id) =>
          /\ UNCHANGED <<tasks, history, historyIndex>>
          /\ toast' = "none"]_vars

\* C9: a declined confirmation of a delete or a bulk delete leaves the task
\* list, the history, the cursor, the selection and the stored list as they were.
C9_DeclineAborts ==
    [][(events' = events + 1 /\ lastOp' \in {"deleteDeclined", "bulkDeclined"}) =>
          UNCHANGED <<tasks, history, historyIndex, selectedTasks, storage, wrote>>]_vars

C9_Witness ==
    /\ lastOp = "bulkDeclined"
    /\ Len(selectedTasks) > 0
    /\ \E k \in 1..Len(tasks) : tasks[k].id \in Range(selectedTasks)

\* C10: a confirmed bulk delete with k selected ids on n tasks leaves n - k
\* tasks, none with a selected id and the others in their order, empties the
\* selection and pushes one history entry.
C10_BulkDelete ==
    [][(events' = events + 1 /\ lastOp' = "bulkDelete") =>
          /\ Len(tasks') = Len(tasks) - Len(selectedTasks)
          /\ tasks' = SelectSeq(tasks, LAMBDA t : t.id \notin Range(selectedTasks))
          /\ selectedTasks' = <<>>
          /\ history' = Append(SubSeq(history, 1, historyIndex + 1), tasks')]_vars

\* C11: once an operation that changes the task list (startup load, fetch
\* completion, create, update, delete, bulk delete, undo, redo, custom-field
\* save) has settled and its storage write succeeded, the stored list equals
\* the in-memory task list.
C11_PersistedOnChange ==
    (lastOp \in ChangeOps /\ wrote = "ok") => storage = JSONstringify(tasks)

C11_Witness ==
    /\ chain = "push.undo"
    /\ wrote = "ok"
    /\ tasks # mark.after
    /\ storage = JSONstringify(tasks)

\* C12: after a reload made in a state whose latest storage write succeeded,
\* startup does not use the network fetch and ends with the task list as it
\* was just before the reload.
C12_ReloadRoundTrip ==
    (session.reloaded /\ session.synced /\ lastOp \in {"mount", "fetchSuccess", "fetchFail"}) =>
        /\ load = "stored"
        /\ tasks = session.before

\* C13: an event whose storage write failed still completes: the stored item
\* keeps the content it had before the failed write, a push has left the new
\* list as the last history entry under the cursor and emitted its
\* notification; and while the stored item is stale, undo and redo take the
\* task list from the in-memory history.
C13_WriteFailureSwallowed ==
    [][/\ (events' = events + 1 /\ wrote' = "failed") =>
            /\ \/ storage' = storage
               \/ lastOp' = "mount" /\ storage' = JSONstringify(<<>>)
               \/ lastOp' = "fetchSuccess" /\ storage' = JSONstringify(tasks')
            /\ lastOp' \in PushOps =>
                 /\ history' = Append(SubSeq(history, 1, historyIndex + 1), tasks')
                 /\ historyIndex' = Len(history') - 1
                 /\ toast' # "none"
       /\ (events' = events + 1 /\ wrote = "failed" /\ lastOp' = "undo") =>
            /\ tasks' = IF historyIndex > 0 THEN Entry(history, historyIndex - 1) ELSE tasks
            /\ historyIndex' = IF historyIndex > 0 THEN historyIndex - 1 ELSE historyIndex
            /\ history' = history
       /\ (events' = events + 1 /\ wrote = "failed" /\ lastOp' = "redo") =>
            /\ tasks' = IF historyIndex < Len(history) - 1
                        THEN Entry(history, historyIndex + 1) ELSE tasks
            /\ historyIndex' = IF historyIndex < Len(history) - 1
                               THEN historyIndex + 1 ELSE historyIndex
            /\ history' = history]_vars

\* a delete and the undo after it both failed to write: the list is the one
\* before the delete, the stored item is older than both
C13_Witness ==
    /\ chain = "push.undo"
    /\ wrote = "failed"
    /\ mark.init
    /\ tasks = mark.entry
    /\ mark.entry # mark.after
    /\ storage \notin {JSONstringify(tasks), JSONstringify(mark.after)}

\* C14: getStoredTasks returns the empty list for a missing item and for an
\* item that does not parse, and startup then goes on exactly as for a stored
\* empty list: the fetch is pending and the task list, the history and the
\* cursor are as constructed.
C14_ReadDegradesToEmpty ==
    [][(/\ events' = events + 1
        /\ lastOp' = "mount"
        /\ storage \in {NoItem, CorruptItem, JSONstringify(<<>>)}) =>
          /\ getStoredTasks(storage) = <<>>
          /\ load' = "fetching"
          /\ tasks' = <<>>
          /\ history' = <<>>
          /\ historyIndex' = -1
          /\ storage' \in {storage, JSONstringify(<<>>)}]_vars

C14_Witness ==
    /\ lastOp = "mount"
    /\ load = "fetching"
    /\ storage = CorruptItem
    /\ wrote = "failed"

\* C15: a failed startup fetch leaves the task list, the history and the cursor
\* as they are (an empty list stays empty), shows no notification or error,
\* leaves no fetch pending, and from then on no fetch is pending again whatever
\* is done.
C15_FetchFailure ==
    [][/\ (events' = events + 1 /\ lastOp' = "fetchFail") =>
            /\ UNCHANGED <<tasks, history, historyIndex, storage, error>>
            /\ toast' = "none"
            /\ load' # "fetching"
       /\ load = "failed" => load' = "failed"]_vars

C15_Witness ==
    /\ load = "failed"
    /\ lastOp = "create"
    /\ events >= 5
    /\ Len(tasks) = 1

\* C16: every change of a filter value, of the sort key or direction, or of
\* the page size leaves the selection empty.
C16_SelectionReset ==
    [][(events' = events + 1 /\ lastOp' \in {"changeFilter", "sort", "pageSize"}) =>
          selectedTasks' = <<>>]_vars

\* C17: every task of the list has a value for every field of the active
\* custom-field descriptor list.
C17_FieldsUniform ==
    \A k \in 1..Len(tasks) : \A j \in 1..Len(customFields) :
        customFields[j].name \in DOMAIN tasks[k].cf

\* C18: the save of the dialog makes the active descriptor list the dialog's
\* list; the task list keeps its length and order and every value the tasks
\* had; every task has a value for every field of the list, and where it had
\* none the value is the default of the field's type: false for checkbox, 0
\* for number, the empty string for text.
C18_Backfill ==
    [][(events' = events + 1 /\ lastOp' = "saveFields") =>
          /\ customFields' = fields
          /\ Len(tasks') = Len(tasks)
          /\ \A k \in 1..Len(tasks) :
                /\ [tasks'[k] EXCEPT !.cf = NoFields] = [tasks[k] EXCEPT !.cf = NoFields]
                /\ \A n \in DOMAIN tasks[k].cf :
                      n \in DOMAIN tasks'[k].cf /\ tasks'[k].cf[n] = tasks[k].cf[n]
                /\ \A j \in 1..Len(fields) :
                      /\ fields[j].name \in DOMAIN tasks'[k].cf
                      /\ fields[j].name \notin DOMAIN tasks[k].cf =>
                            tasks'[k].cf[fields[j].name] =
                                (CASE fields[j].type = "checkbox" -> "b:false"
                                   [] fields[j].type = "number" -> "n:0"
                                   [] fields[j].type = "text" -> "s:")]_vars

\* C19: the save of the dialog leaves the history entries and the cursor as
\* they were, also when it replaces the task list.
C19_BackfillPushesNoHistory ==
    [][(events' = events + 1 /\ lastOp' = "saveFields") =>
          UNCHANGED <<history, historyIndex>>]_vars

C19_Witness ==
    /\ lastOp = "saveFields"
    /\ historyIndex >= 0
    /\ Len(customFields) > 0
    /\ tasks # Entry(history, historyIndex)

\* C20: Add Field appends one descriptor, with the name and type entered, iff
\* the name is not empty, has at least 2 characters, differs ignoring case
\* from every name of the dialog's list and is a letter followed by letters,
\* digits and underscores; otherwise the list is unchanged and a message is
\* set; and the names of the list are always pairwise distinct ignoring case.
C20_FieldNameValidation ==
    [][/\ (events' = events + 1 /\ lastOp' = "addField") =>
            LET appended == fields' # fields
                name == IF appended THEN fields'[Len(fields')].name ELSE newField'.name
            IN  /\ appended => /\ Len(fields') = Len(fields) + 1
                                /\ SubSeq(fields', 1, Len(fields)) = fields
                                /\ error' = ""
                /\ ~appended => error' # ""
                /\ appended <=>
                      /\ name # <<>>
                      /\ Len(name) >= 2
                      /\ \A k \in 1..Len(fields) : lower(fields[k].name) # lower(name)
                      /\ name[1] \in Letters
                      /\ \A k \in 2..Len(name) : name[k] \in Letters \cup Digits \cup {"_"}
       /\ \A i, j \in 1..Len(fields') :
            i # j => lower(fields'[i].name) # lower(fields'[j].name)]_vars

C20_Witness ==
    /\ lastOp = "addField"
    /\ Len(fields) = 2
    /\ error = "Field name must be unique"
    /\ newField.name = <<"A", "_", "1">>
    /\ \E k \in 1..Len(fields) : fields[k].name = <<"a", "_", "1">>

\* C21: the filtered view holds exactly the tasks whose title contains the
\* title filter ignoring case, whose priority the priority filter admits and
\* whose status the status filter admits, once each and in the order of the
\* list; every sort configuration shows the same tasks, and every row of the
\* current page is one of them.
C21_Filter ==
    LET f == filteredTasks(tasks, filters)
        contains(text, part) ==
            \E i \in 1..(Len(text) + 1) : \E j \in (i - 1)..Len(text) : SubSeq(text, i, j) = part
        Kept(t) == /\ contains(lower(t.title), lower(filters.title))
                   /\ filters.priority \in {"all", t.priority}
                   /\ filters.status \in {"all", t.status}
    IN  /\ \A k \in 1..Len(tasks) : (\E i \in 1..Len(f) : f[i] = tasks[k]) <=> Kept(tasks[k])
        /\ Len(f) = Cardinality({k \in 1..Len(tasks) : Kept(tasks[k])})
        /\ \A i, j \in 1..Len(f) :
              i < j => \E a, b \in 1..Len(tasks) : a < b /\ tasks[a] = f[i] /\ tasks[b] = f[j]
        /\ \A key \in ColumnKeys \cup {NoKey}, direction \in {"asc", "desc"} :
              Range(sortedTasks(f, [key |-> key, direction |-> direction])) = Range(f)
        /\ \A k \in 1..Len(paginatedTasks) : Kept(paginatedTasks[k])

\* five tasks filtered by priority high, sorted descending, twenty rows a page
C21_Witness ==
    /\ tasks = FiveTasks
    /\ filters.priority = "high"
    /\ filters.title = <<"a">>
    /\ sortConfig = [key |-> TitleKey, direction |-> "desc"]
    /\ pagination.pageSize = 20
    /\ [k \in 1..Len(paginatedTasks) |-> paginatedTasks[k].id] = <<1, 3>>

\* C22: for every page size s the select offers and the filtered and sorted
\* list of n tasks, page p shows exactly the items at positions
\* [(p-1)*s, min(p*s, n)), totalPages is the least k with k*s >= n, and over
\* pages 1..totalPages every task of the list is shown exactly once.
C22_Pagination ==
    LET view == sortedTasks(filteredTasks(tasks, filters), sortConfig)
        n == Len(view)
        min(a, b) == IF a < b THEN a ELSE b
        page(p, size) == pageOf(view, [currentPage |-> p, pageSize |-> size])
    IN  /\ totalPages = totalPagesOf(n, pagination.pageSize)
        /\ pagination.currentPage <= totalPages => paginatedTasks = page(pagination.currentPage, pagination.pageSize)
        /\ \A size \in {10, 20, 50} :
              LET last == totalPagesOf(n, size)
              IN  /\ last \in 0..n
                  /\ last * size >= n
                  /\ (last > 0 => (last - 1) * size < n)
                  /\ \A p \in 1..last :
                        /\ Len(page(p, size)) = min(p * size, n) - (p - 1) * size
                        /\ \A k \in 1..Len(page(p, size)) : page(p, size)[k] = view[(p - 1) * size + k]
                  /\ \A i \in 1..n :
                        Cardinality({pk \in (1..last) \X (1..size) :
                                       /\ pk[2] <= Len(page(pk[1], size))
                                       /\ page(pk[1], size)[pk[2]] = view[i]}) = 1

\* 25 tasks, ten a page: page 2 holds ten rows, page 3 five, three pages
C22_Witness ==
    /\ tasks = ManyTasks
    /\ Len(filteredTasks(tasks, filters)) = 25
    /\ sortConfig.key = TitleKey
    /\ pagination = [currentPage |-> 2, pageSize |-> 10]
    /\ Len(paginatedTasks) = 10
    /\ totalPages = 3
    /\ Len(pageOf(sortedTasks(tasks, sortConfig), [currentPage |-> 3, pageSize |-> 10])) = 5

\* C23: for every column key the sorted view is a permutation of the filtered
\* set; when no two tasks of the filtered set have equal values for the key,
\* sorting descending gives the reverse of sorting ascending; with no sort key
\* the view keeps the filtered order.
C23_SortDirection ==
    LET f == filteredTasks(tasks, filters)
        value(t, key) == CASE key = TitleKey -> t.title
                           [] key = PriorityKey -> t.priority
                           [] key = StatusKey -> t.status
                           [] OTHER -> customValue(t, key)
        asc(key) == sortedTasks(f, [key |-> key, direction |-> "asc"])
        desc(key) == sortedTasks(f, [key |-> key, direction |-> "desc"])
    IN  /\ \A key \in ColumnKeys :
              /\ Len(asc(key)) = Len(f) /\ Range(asc(key)) = Range(f)
              /\ Len(desc(key)) = Len(f) /\ Range(desc(key)) = Range(f)
              /\ (\A i, j \in 1..Len(f) : i # j => value(f[i], key) # value(f[j], key))
                    => desc(key) = [k \in 1..Len(f) |-> asc(key)[Len(f) + 1 - k]]
        /\ \A direction \in {"asc", "desc"} :
              sortedTasks(f, [key |-> NoKey, direction |-> direction]) = f

\* C24: a confirmed delete of a row leaves no task with the row's id, keeps
\* every task with another id in its relative order, and pushes exactly one
\* history entry, the new list, after the entries up to the cursor.
C24_ConfirmedDelete ==
    [][(events' = events + 1 /\ lastOp' = "delete") =>
          \E r \in 1..Len(paginatedTasks) :
              LET id == paginatedTasks[r].id
                  keep == {i \in 1..Len(tasks) : tasks[i].id # id}
                  nth(j) == CHOOSE i \in keep : Cardinality({x \in keep : x <= i}) = j
              IN  /\ \A i \in 1..Len(tasks') : tasks'[i].id # id
                  /\ Len(tasks') = Cardinality(keep)
                  /\ \A j \in 1..Len(tasks') : tasks'[j] = tasks[nth(j)]
                  /\ Len(history') = historyIndex + 2
                  /\ SubSeq(history', 1, historyIndex + 1) = SubSeq(history, 1, historyIndex + 1)
                  /\ history'[Len(history')] = tasks'
                  /\ historyIndex' = historyIndex + 1]_vars

\* the first of two tasks was deleted and the other one remains
C24_Witness ==
    /\ lastOp = "delete"
    /\ historyIndex >= 1
    /\ Len(Entry(history, historyIndex - 1)) = 2
    /\ tasks = <<Entry(history, historyIndex - 1)[2]>>

\* C25: changing a filter, the sort configuration, the current page or the
\* page size, and selecting or deselecting tasks, leave the task list, the
\* history entries, the cursor and the stored list unchanged.
C25_ViewOpsKeepData ==
    [][(events' = events + 1 /\
        lastOp' \in {"changeFilter", "sort", "pageSize", "previous", "next", "select", "selectAll"}) =>
          UNCHANGED <<tasks, history, historyIndex, storage>>]_vars

\* a sort that shows the rows in another order than the list holds them
C25_Witness ==
    /\ lastOp = "sort"
    /\ Len(tasks) >= 2
    /\ Len(paginatedTasks) = Len(tasks)
    /\ paginatedTasks # tasks
    /\ storage = JSONstringify(tasks)

\* C26: in every reachable state with an initialized history the task list
\* equals the history entry at the cursor.
C26_ListIsCursorEntry ==
    historyIndex >= 0 => tasks = Entry(history, historyIndex)

\* C27: when the startup fetch completes, every task the list held just before
\* (put there while the fetch was pending) is still in the list and in an entry
\* of the history.
C27_FetchKeepsUserWork ==
    [][(events' = events + 1 /\ lastOp' = "fetchSuccess") =>
          \A k \in 1..Len(tasks) :
              /\ tasks[k] \in Range(tasks')
              /\ \E h \in 1..Len(history') : tasks[k] \in Range(history'[h])]_vars

\* C28: every selected id is the id of a task shown on the current page.
C28_SelectionVisible ==
    \A id \in Range(selectedTasks) : \E k \in 1..Len(paginatedTasks) : paginatedTasks[k].id = id

\* C29: the current page is at least 1 and at most max(1, totalPages).
C29_PageInRange ==
    /\ 1 <= pagination.currentPage
    /\ pagination.currentPage <= (IF totalPages > 1 THEN totalPages ELSE 1)

====
